---- MODULE Spec2Model ----
(***************************************************************************)
(* EleKit, passives.py: seven stateless formula solvers.  A call takes     *)
(* numbers, exactly one of which must be 0 (the unknown to solve for), and *)
(* either returns a value (a one-entry dict, or a bare number) or raises.  *)
(*                                                                         *)
(* Numbers.  A finite number is ((n/d) * (2*pi)^p)^(1/r), kept as the      *)
(* record [k |-> "fin", n, d, p, r, x] with n/d in lowest terms, d > 0 and *)
(* r = 1 except for an irrational square root (r = 2).  pi is kept         *)
(* symbolic, so every product and quotient the solvers form is exact.      *)
(* Python's float has a finite range: under arith = "float" a product,     *)
(* quotient or sum whose magnitude exceeds MaxMag becomes inf, one below   *)
(* 1/MinInv becomes 0, and pow() out of range raises OverflowError.  Under *)
(* arith = "exact" (Python int / Fraction arguments, and the arithmetic in *)
(* which the round-trip laws are stated) there is no range.  Rounding of   *)
(* the mantissa is not modelled.                                           *)
(* The field x of a number is history, not data: it is TRUE when some step *)
(* of the number's computation left the float range.  No test the code     *)
(* makes (== 0, < 0) reads it.                                             *)
(***************************************************************************)
EXTENDS Integers, Sequences, FiniteSets, TLC

VARIABLES arith, fn, args, res, prev, hops

vars == <<arith, fn, args, res, prev, hops>>

\* ---------------------------------------------------------------- bounds
\* the largest and (as 1/Big) the smallest magnitude among the inputs
Big == 16
\* the largest finite magnitude of the float format
MaxMag == 200
\* 1/MinInv is the smallest non-zero magnitude of the float format
MinInv == 32
\* how many times a result is fed back into the solver that produced it
MaxResolve == 1

\* 2*math.pi as a fraction, used only to compare a magnitude with the range
TwoPiNum == 25
TwoPiDen == 4

\* ------------------------------------------------------------- numbers
Abs(i) == IF i < 0 THEN -i ELSE i

RECURSIVE Gcd(_, _)
Gcd(a, b) == IF b = 0 THEN a ELSE Gcd(b, a % b)

RECURSIVE IPow(_, _)
IPow(b, e) == IF e = 0 THEN 1 ELSE b * IPow(b, e - 1)

\* the number (n/d) * (2*pi)^p, d # 0, in lowest terms, with history x
Fin(n, d, p, x) ==
    IF n = 0 THEN [k |-> "fin", n |-> 0, d |-> 1, p |-> 0, r |-> 1, x |-> x]
    ELSE LET g == Gcd(Abs(n), Abs(d))
             s == IF d < 0 THEN -1 ELSE 1
         IN  [k |-> "fin", n |-> s * (n \div g), d |-> s * (d \div g),
              p |-> p, r |-> 1, x |-> x]

\* the literal n/d
Q(n, d) == Fin(n, d, 0, FALSE)

Zero == Q(0, 1)
One == Q(1, 1)

Inf(s, x) == [k |-> "inf", s |-> s, x |-> x]
NaN(x) == [k |-> "nan", x |-> x]
\* the exception e(m) raised while evaluating an expression
Err(e, m, x) == [k |-> "err", e |-> e, m |-> m, x |-> x]

\* 2*math.pi
TwoPi == Fin(1, 1, 1, FALSE)
\* 4*pow(math.pi,2)
FourPiSq == Fin(1, 1, 2, FALSE)

\* x == 0, as tuple.count(0) and the branch tests see it
IsZero(x) == x.k = "fin" /\ x.n = 0
\* x < 0
IsNeg(x) == \/ x.k = "fin" /\ x.n < 0
            \/ x.k = "inf" /\ x.s < 0
Sign(x) == IF IsNeg(x) THEN -1 ELSE 1

\* |x| > MaxMag, for finite non-zero x
TooBig(x) ==
    IF x.p >= 0
    THEN Abs(x.n) * IPow(TwoPiNum, x.p) > MaxMag * x.d * IPow(TwoPiDen, x.p)
    ELSE Abs(x.n) * IPow(TwoPiDen, -x.p) > MaxMag * x.d * IPow(TwoPiNum, -x.p)

\* |x| < 1/MinInv, for finite non-zero x
TooSmall(x) ==
    IF x.p >= 0
    THEN Abs(x.n) * MinInv * IPow(TwoPiNum, x.p) < x.d * IPow(TwoPiDen, x.p)
    ELSE Abs(x.n) * MinInv * IPow(TwoPiDen, -x.p) < x.d * IPow(TwoPiNum, -x.p)

\* the float an exact finite result becomes: inf past the range, 0 below it
Rng(x) ==
    IF arith = "exact" \/ IsZero(x) THEN x
    ELSE IF TooBig(x) THEN Inf(Sign(x), TRUE)
    ELSE IF TooSmall(x) THEN Fin(0, 1, 0, TRUE)
    ELSE x

\* a * b; an operand that raised (the left one first) raises
Mul(a, b) ==
    IF a.k = "err" THEN a
    ELSE IF b.k = "err" THEN b
    ELSE IF a.k = "nan" \/ b.k = "nan" THEN NaN(a.x \/ b.x)
    ELSE IF a.k = "inf" \/ b.k = "inf"
         THEN IF IsZero(a) \/ IsZero(b) THEN NaN(a.x \/ b.x)
              ELSE Inf(Sign(a) * Sign(b), a.x \/ b.x)
    ELSE Rng(Fin(a.n * b.n, a.d * b.d, a.p + b.p, a.x \/ b.x))

\* a / b as IEEE 754 defines it: a zero divisor gives an infinity or NaN
Div_ieee(a, b) ==
    IF a.k = "err" THEN a
    ELSE IF b.k = "err" THEN b
    ELSE IF a.k = "nan" \/ b.k = "nan" THEN NaN(a.x \/ b.x)
    ELSE IF IsZero(b)
         THEN IF IsZero(a) THEN NaN(a.x \/ b.x) ELSE Inf(Sign(a), a.x \/ b.x)
    ELSE IF a.k = "inf"
         THEN IF b.k = "inf" THEN NaN(a.x \/ b.x)
              ELSE Inf(Sign(a) * Sign(b), a.x \/ b.x)
    ELSE IF b.k = "inf" THEN Fin(0, 1, 0, a.x \/ b.x)
    ELSE Rng(Fin(a.n * b.d, a.d * b.n, a.p - b.p, a.x \/ b.x))

\* a / b; a zero divisor raises ZeroDivisionError
Div(a, b) ==
    IF a.k = "err" THEN a
    ELSE IF b.k = "err" THEN b
    ELSE IF IsZero(b) THEN Err("ZeroDivisionError", "division by zero", a.x \/ b.x)
    ELSE IF a.k = "nan" \/ b.k = "nan" THEN NaN(a.x \/ b.x)
    ELSE IF a.k = "inf"
         THEN IF b.k = "inf" THEN NaN(a.x \/ b.x)
              ELSE Inf(Sign(a) * Sign(b), a.x \/ b.x)
    ELSE IF b.k = "inf" THEN Fin(0, 1, 0, a.x \/ b.x)
    ELSE Rng(Fin(a.n * b.d, a.d * b.n, a.p - b.p, a.x \/ b.x))

\* -a
Neg(a) ==
    IF a.k = "fin" THEN [a EXCEPT !.n = -a.n]
    ELSE IF a.k = "inf" THEN Inf(-a.s, a.x)
    ELSE a

\* a + b (finite operands carry the same power of 2*pi, or one of them is 0)
Add(a, b) ==
    IF a.k = "err" THEN a
    ELSE IF b.k = "err" THEN b
    ELSE IF a.k = "nan" \/ b.k = "nan" THEN NaN(a.x \/ b.x)
    ELSE IF a.k = "inf" /\ b.k = "inf"
         THEN IF a.s = b.s THEN Inf(a.s, a.x \/ b.x) ELSE NaN(a.x \/ b.x)
    ELSE IF a.k = "inf" THEN Inf(a.s, a.x \/ b.x)
    ELSE IF b.k = "inf" THEN Inf(b.s, a.x \/ b.x)
    ELSE IF IsZero(a) THEN [b EXCEPT !.x = a.x \/ b.x]
    ELSE IF IsZero(b) THEN [a EXCEPT !.x = a.x \/ b.x]
    ELSE Rng(Fin(a.n * b.d + b.n * a.d, a.d * b.d, a.p, a.x \/ b.x))

\* a - b
Sub(a, b) == IF b.k = "err" /\ a.k # "err" THEN b ELSE Add(a, Neg(b))

\* pow(a, 2): a float square past the range raises OverflowError
Pow2(a) ==
    IF a.k \in {"err", "nan"} THEN a
    ELSE IF a.k = "inf" THEN Inf(1, a.x)
    ELSE LET sq == Fin(a.n * a.n, a.d * a.d, 2 * a.p, a.x)
         IN  IF arith = "exact" \/ IsZero(sq) THEN sq
             ELSE IF TooBig(sq)
                  THEN Err("OverflowError", "Numerical result out of range", TRUE)
             ELSE IF TooSmall(sq) THEN Fin(0, 1, 0, TRUE)
             ELSE sq

\* pow(a): the call passes no exponent
Pow1(a) ==
    IF a.k = "err" THEN a
    ELSE Err("TypeError", "pow() missing required argument 'exp' (pos 2)", a.x)

IsSquare(i) == \E s \in 0..i : s * s = i
ISqrt(i) == CHOOSE s \in 0..i : s * s = i

\* math.sqrt(a): a negative argument raises ValueError
Sqrt(a) ==
    IF a.k \in {"err", "nan"} THEN a
    ELSE IF IsNeg(a) THEN Err("ValueError", "math domain error", a.x)
    ELSE IF a.k = "inf" \/ IsZero(a) THEN a
    ELSE IF IsSquare(a.n) /\ IsSquare(a.d) /\ a.p % 2 = 0
         THEN [a EXCEPT !.n = ISqrt(a.n), !.d = ISqrt(a.d), !.p = a.p \div 2]
    ELSE [a EXCEPT !.r = 2]

\* ------------------------------------------------------------- results
GateMsg == "One and only one argument must be 0"
ElseMsg == "Exactly one argument must be 0"

\* (a, b, ...).count(0)
ZeroCount(t) == Cardinality({i \in DOMAIN t : IsZero(t[i])})

\* raise exc(msg) from the branch br of the solver; a result's br names the
\* branch that produced it, rng is the history x of the value it computed
Raise(exc, msg, br, x) ==
    [kind |-> "raise", exc |-> exc, msg |-> msg, br |-> br, rng |-> x]

\* return {key: v}; evaluating v may have raised
RetDict(key, v, br) ==
    IF v.k = "err" THEN Raise(v.e, v.m, br, v.x)
    ELSE [kind |-> "dict", key |-> key, val |-> v, br |-> br, rng |-> v.x]

\* return v; evaluating v may have raised
RetBare(v, br) ==
    IF v.k = "err" THEN Raise(v.e, v.m, br, v.x)
    ELSE [kind |-> "bare", val |-> v, br |-> br, rng |-> v.x]

\* ------------------------------------------------------------- solvers
\* ind_reactance with the frequency tested before the inductance
ind_reactance_freq_first(inductance, frequency, reactance) ==
    IF ZeroCount(<<inductance, frequency, reactance>>) # 1
    THEN Raise("ValueError", GateMsg, "gate", FALSE)
    ELSE IF IsNeg(frequency)
    THEN Raise("ValueError", "Frequency cannot be negative", "neg", FALSE)
    ELSE IF IsNeg(inductance)
    THEN Raise("ValueError", "Inductance cannot be negative", "neg", FALSE)
    ELSE IF IsNeg(reactance)
    THEN Raise("ValueError", "Reactance cannot be negative", "neg", FALSE)
    ELSE IF IsZero(inductance)
    THEN RetDict("inductance", Div(reactance, Mul(TwoPi, frequency)), "inductance")
    ELSE IF IsZero(frequency)
    THEN RetDict("frequency", Div(reactance, Mul(TwoPi, inductance)), "frequency")
    ELSE IF IsZero(reactance)
    THEN RetDict("reactance", Mul(Mul(TwoPi, frequency), inductance), "reactance")
    ELSE Raise("ValueError", ElseMsg, "else", FALSE)

ind_reactance(inductance, frequency, reactance) ==
    IF ZeroCount(<<inductance, frequency, reactance>>) # 1
    THEN Raise("ValueError", GateMsg, "gate", FALSE)
    ELSE IF IsNeg(inductance)
    THEN Raise("ValueError", "Inductance cannot be negative", "neg", FALSE)
    ELSE IF IsNeg(frequency)
    THEN Raise("ValueError", "Frequency cannot be negative", "neg", FALSE)
    ELSE IF IsNeg(reactance)
    THEN Raise("ValueError", "Reactance cannot be negative", "neg", FALSE)
    ELSE IF IsZero(inductance)
    THEN RetDict("inductance", Div(reactance, Mul(TwoPi, frequency)), "inductance")
    ELSE IF IsZero(frequency)
    THEN RetDict("frequency", Div(reactance, Mul(TwoPi, inductance)), "frequency")
    ELSE IF IsZero(reactance)
    THEN RetDict("reactance", Mul(Mul(TwoPi, frequency), inductance), "reactance")
    ELSE Raise("ValueError", ElseMsg, "else", FALSE)

\* cap_reactance with the negative checks ahead of the zero count
cap_reactance_neg_first(capacitance, frequency, reactance) ==
    IF IsNeg(capacitance)
    THEN Raise("ValueError", "Capacitance cannot be negative", "neg", FALSE)
    ELSE IF IsNeg(frequency)
    THEN Raise("ValueError", "Frequency cannot be negative", "neg", FALSE)
    ELSE IF IsNeg(reactance)
    THEN Raise("ValueError", "Reactance cannot be negative", "neg", FALSE)
    ELSE IF ZeroCount(<<capacitance, frequency, reactance>>) # 1
    THEN Raise("ValueError", GateMsg, "gate", FALSE)
    ELSE IF IsZero(capacitance)
    THEN RetDict("capacitance",
                 Div(One, Mul(Mul(TwoPi, frequency), reactance)), "capacitance")
    ELSE IF IsZero(frequency)
    THEN RetDict("frequency",
                 Div(One, Mul(Mul(TwoPi, capacitance), reactance)), "frequency")
    ELSE IF IsZero(reactance)
    THEN RetDict("reactance",
                 Div(One, Mul(Mul(TwoPi, frequency), capacitance)), "reactance")
    ELSE Raise("ValueError", ElseMsg, "else", FALSE)

\* cap_reactance without the check of the reactance
cap_reactance_unchecked(capacitance, frequency, reactance) ==
    IF ZeroCount(<<capacitance, frequency, reactance>>) # 1
    THEN Raise("ValueError", GateMsg, "gate", FALSE)
    ELSE IF IsNeg(capacitance)
    THEN Raise("ValueError", "Capacitance cannot be negative", "neg", FALSE)
    ELSE IF IsNeg(frequency)
    THEN Raise("ValueError", "Frequency cannot be negative", "neg", FALSE)
    ELSE IF IsZero(capacitance)
    THEN RetDict("capacitance",
                 Div(One, Mul(Mul(TwoPi, frequency), reactance)), "capacitance")
    ELSE IF IsZero(frequency)
    THEN RetDict("frequency",
                 Div(One, Mul(Mul(TwoPi, capacitance), reactance)), "frequency")
    ELSE IF IsZero(reactance)
    THEN RetDict("reactance",
                 Div(One, Mul(Mul(TwoPi, frequency), capacitance)), "reactance")
    ELSE Raise("ValueError", ElseMsg, "else", FALSE)

cap_reactance(capacitance, frequency, reactance) ==
    IF ZeroCount(<<capacitance, frequency, reactance>>) # 1
    THEN Raise("ValueError", GateMsg, "gate", FALSE)
    ELSE IF IsNeg(capacitance)
    THEN Raise("ValueError", "Capacitance cannot be negative", "neg", FALSE)
    ELSE IF IsNeg(frequency)
    THEN Raise("ValueError", "Frequency cannot be negative", "neg", FALSE)
    ELSE IF IsNeg(reactance)
    THEN Raise("ValueError", "Reactance cannot be negative", "neg", FALSE)
    ELSE IF IsZero(capacitance)
    THEN RetDict("capacitance",
                 Div(One, Mul(Mul(TwoPi, frequency), reactance)), "capacitance")
    ELSE IF IsZero(frequency)
    THEN RetDict("frequency",
                 Div(One, Mul(Mul(TwoPi, capacitance), reactance)), "frequency")
    ELSE IF IsZero(reactance)
    THEN RetDict("reactance",
                 Div(One, Mul(Mul(TwoPi, frequency), capacitance)), "reactance")
    ELSE Raise("ValueError", ElseMsg, "else", FALSE)

resonance(capacitance, inductance, frequency) ==
    IF ZeroCount(<<capacitance, inductance, frequency>>) # 1
    THEN Raise("ValueError", GateMsg, "gate", FALSE)
    ELSE IF IsZero(inductance)
    THEN RetDict("inductance",
                 Div(One, Mul(Pow2(Mul(TwoPi, frequency)), capacitance)), "inductance")
    ELSE IF IsZero(capacitance)
    THEN RetDict("capacitance",
                 Div(One, Mul(Pow2(Mul(TwoPi, frequency)), inductance)), "capacitance")
    ELSE IF IsZero(frequency)
    THEN RetDict("frequency",
                 Sqrt(Div(One, Mul(Mul(FourPiSq, capacitance), inductance))), "frequency")
    ELSE Raise("ValueError", ElseMsg, "else", FALSE)

\* ohms_law with the quotient of the current branch upside down
ohms_law_inverted(voltage, current, resistance) ==
    IF ZeroCount(<<voltage, current, resistance>>) # 1
    THEN Raise("ValueError", GateMsg, "gate", FALSE)
    ELSE IF IsZero(voltage)
    THEN RetDict("voltage", Mul(current, resistance), "voltage")
    ELSE IF IsZero(current)
    THEN RetDict("current", Div(resistance, voltage), "current")
    ELSE IF IsZero(resistance)
    THEN RetDict("resistance", Div(voltage, current), "resistance")
    ELSE Raise("ValueError", ElseMsg, "else", FALSE)

\* ohms_law with the second test on the voltage again
ohms_law_typo(voltage, current, resistance) ==
    IF ZeroCount(<<voltage, current, resistance>>) # 1
    THEN Raise("ValueError", GateMsg, "gate", FALSE)
    ELSE IF IsZero(voltage)
    THEN RetDict("voltage", Mul(current, resistance), "voltage")
    ELSE IF IsZero(voltage)
    THEN RetDict("current", Div(voltage, resistance), "current")
    ELSE IF IsZero(resistance)
    THEN RetDict("resistance", Div(voltage, current), "resistance")
    ELSE Raise("ValueError", ElseMsg, "else", FALSE)

ohms_law(voltage, current, resistance) ==
    IF ZeroCount(<<voltage, current, resistance>>) # 1
    THEN Raise("ValueError", GateMsg, "gate", FALSE)
    ELSE IF IsZero(voltage)
    THEN RetDict("voltage", Mul(current, resistance), "voltage")
    ELSE IF IsZero(current)
    THEN RetDict("current", Div(voltage, resistance), "current")
    ELSE IF IsZero(resistance)
    THEN RetDict("resistance", Div(voltage, current), "resistance")
    ELSE Raise("ValueError", ElseMsg, "else", FALSE)

\* power with the result keyed like ohms_law, by the zero parameter
power_keyed(voltage, current, resistance) ==
    IF ZeroCount(<<voltage, current, resistance>>) # 1
    THEN Raise("ValueError", GateMsg, "gate", FALSE)
    ELSE IF IsZero(voltage)
    THEN RetDict("voltage", Mul(Pow2(current), resistance), "voltage")
    ELSE IF IsZero(current)
    THEN RetDict("current", Div(Pow2(voltage), resistance), "current")
    ELSE IF IsZero(resistance)
    THEN RetDict("resistance", Mul(voltage, current), "resistance")
    ELSE Raise("ValueError", ElseMsg, "else", FALSE)

power(voltage, current, resistance) ==
    IF ZeroCount(<<voltage, current, resistance>>) # 1
    THEN Raise("ValueError", GateMsg, "gate", FALSE)
    ELSE IF IsZero(voltage)
    THEN RetDict("power", Mul(Pow2(current), resistance), "voltage")
    ELSE IF IsZero(current)
    THEN RetDict("power", Div(Pow2(voltage), resistance), "current")
    ELSE IF IsZero(resistance)
    THEN RetDict("power", Mul(voltage, current), "resistance")
    ELSE Raise("ValueError", ElseMsg, "else", FALSE)

\* impedance with the two reactance branches computing a magnitude
impedance_filled(resistance, ind_react, cap_react) ==
    IF ZeroCount(<<resistance, ind_react, cap_react>>) # 1
    THEN Raise("ValueError", GateMsg, "gate", FALSE)
    ELSE IF IsZero(resistance)
    THEN RetBare(Sqrt(Pow1(Add(ind_react, cap_react))), "resistance")
    ELSE IF IsZero(ind_react)
    THEN RetBare(Sqrt(Add(Pow2(resistance), Pow2(cap_react))), "ind_reactance")
    ELSE IF IsZero(cap_react)
    THEN RetBare(Sqrt(Add(Pow2(resistance), Pow2(ind_react))), "cap_reactance")
    ELSE Raise("ValueError", ElseMsg, "else", FALSE)

impedance(resistance, ind_react, cap_react) ==
    IF ZeroCount(<<resistance, ind_react, cap_react>>) # 1
    THEN Raise("ValueError", GateMsg, "gate", FALSE)
    ELSE IF IsZero(resistance)
    THEN RetBare(Sqrt(Pow1(Add(ind_react, cap_react))), "resistance")
    ELSE IF IsZero(ind_react)
    THEN RetBare(Zero, "ind_reactance")
    ELSE IF IsZero(cap_react)
    THEN RetBare(Zero, "cap_reactance")
    ELSE Raise("ValueError", ElseMsg, "else", FALSE)

\* divider with the sum for the difference in the res_low formula
divider_sum(res_high, res_low, v_in, v_out) ==
    IF ZeroCount(<<res_high, res_low, v_in, v_out>>) # 1
    THEN Raise("ValueError", GateMsg, "gate", FALSE)
    ELSE IF IsZero(v_in)
    THEN RetBare(Div(Mul(v_out, Add(res_low, res_high)), res_low), "v_in")
    ELSE IF IsZero(v_out)
    THEN RetBare(Mul(Div(res_low, Add(res_high, res_low)), v_in), "v_out")
    ELSE IF IsZero(res_high)
    THEN RetBare(Sub(Div(Mul(res_low, v_in), v_out), res_low), "res_high")
    ELSE IF IsZero(res_low)
    THEN RetBare(Div(Mul(res_high, v_out), Add(v_in, v_out)), "res_low")
    ELSE Raise("ValueError", ElseMsg, "else", FALSE)

divider(res_high, res_low, v_in, v_out) ==
    IF ZeroCount(<<res_high, res_low, v_in, v_out>>) # 1
    THEN Raise("ValueError", GateMsg, "gate", FALSE)
    ELSE IF IsZero(v_in)
    THEN RetBare(Div(Mul(v_out, Add(res_low, res_high)), res_low), "v_in")
    ELSE IF IsZero(v_out)
    THEN RetBare(Mul(Div(res_low, Add(res_high, res_low)), v_in), "v_out")
    ELSE IF IsZero(res_high)
    THEN RetBare(Sub(Div(Mul(res_low, v_in), v_out), res_low), "res_high")
    ELSE IF IsZero(res_low)
    THEN RetBare(Div(Mul(res_high, v_out), Sub(v_in, v_out)), "res_low")
    ELSE Raise("ValueError", ElseMsg, "else", FALSE)

\* the parameter names of each solver, in signature order
Params(f) ==
    CASE f = "ind_reactance" -> <<"inductance", "frequency", "reactance">>
      [] f = "cap_reactance" -> <<"capacitance", "frequency", "reactance">>
      [] f = "resonance" -> <<"capacitance", "inductance", "frequency">>
      [] f = "ohms_law" -> <<"voltage", "current", "resistance">>
      [] f = "power" -> <<"voltage", "current", "resistance">>
      [] f = "impedance" -> <<"resistance", "ind_reactance", "cap_reactance">>
      [] f = "divider" -> <<"res_high", "res_low", "v_in", "v_out">>

\* the call f(*a)
Apply(f, a) ==
    CASE f = "ind_reactance" -> ind_reactance(a[1], a[2], a[3])
      [] f = "cap_reactance" -> cap_reactance(a[1], a[2], a[3])
      [] f = "resonance" -> resonance(a[1], a[2], a[3])
      [] f = "ohms_law" -> ohms_law(a[1], a[2], a[3])
      [] f = "power" -> power(a[1], a[2], a[3])
      [] f = "impedance" -> impedance(a[1], a[2], a[3])
      [] f = "divider" -> divider(a[1], a[2], a[3], a[4])

\* ------------------------------------------------------- state machine
\* the numbers a caller passes: 0, negative, small, ordinary and large ones
Inputs == {Q(0, 1), Q(-2, 1), Q(-1, 1), Q(1, Big), Q(1, 1), Q(2, 1), Q(3, 1), Q(Big, 1)}

NoRes == [kind |-> "none"]
NoCall == [fn |-> "none", args |-> <<>>, res |-> NoRes]

\* the solvers whose result is the quantity of the zero parameter, so that it
\* can be passed back in that parameter's place
Invertible == {"ind_reactance", "cap_reactance", "ohms_law", "divider"}

\* the position of the one zero among a
ZeroSlot(a) == CHOOSE i \in DOMAIN a : IsZero(a[i])

Init ==
    /\ arith \in {"exact", "float"}
    /\ fn = "none"
    /\ args = <<>>
    /\ res = NoRes
    /\ prev = NoCall
    /\ hops = 0

\* a call f(*a) with arguments of the caller's choosing
Call(f, a) ==
    /\ fn = "none"
    /\ fn' = f
    /\ args' = a
    /\ res' = Apply(f, a)
    /\ prev' = NoCall
    /\ hops' = 0
    /\ UNCHANGED arith

\* the caller substitutes the value just solved for in the zero parameter's
\* place, zeroes parameter j instead, and calls the same solver again
Resolve(f, j) ==
    /\ fn = f
    /\ hops < MaxResolve
    /\ res.kind \in {"dict", "bare"}
    /\ res.val.k = "fin"
    /\ ZeroCount(args) = 1
    /\ j \in DOMAIN args
    /\ j # ZeroSlot(args)
    /\ LET a == [args EXCEPT ![ZeroSlot(args)] = res.val, ![j] = Zero]
       IN  /\ args' = a
           /\ res' = Apply(f, a)
    /\ prev' = [fn |-> fn, args |-> args, res |-> res]
    /\ hops' = hops + 1
    /\ UNCHANGED <<arith, fn>>

Do_ind_reactance ==
    \/ \E a \in Inputs, b \in Inputs, c \in Inputs : Call("ind_reactance", <<a, b, c>>)
    \/ \E j \in 1..3 : Resolve("ind_reactance", j)

Do_cap_reactance ==
    \/ \E a \in Inputs, b \in Inputs, c \in Inputs : Call("cap_reactance", <<a, b, c>>)
    \/ \E j \in 1..3 : Resolve("cap_reactance", j)

Do_resonance ==
    \E a \in Inputs, b \in Inputs, c \in Inputs : Call("resonance", <<a, b, c>>)

Do_ohms_law ==
    \/ \E a \in Inputs, b \in Inputs, c \in Inputs : Call("ohms_law", <<a, b, c>>)
    \/ \E j \in 1..3 : Resolve("ohms_law", j)

Do_power ==
    \E a \in Inputs, b \in Inputs, c \in Inputs : Call("power", <<a, b, c>>)

Do_impedance ==
    \E a \in Inputs, b \in Inputs, c \in Inputs : Call("impedance", <<a, b, c>>)

Do_divider ==
    \/ \E a \in Inputs, b \in Inputs, c \in Inputs, d \in Inputs :
          Call("divider", <<a, b, c, d>>)
    \/ \E j \in 1..4 : Resolve("divider", j)

\* the caller drops the result: the solvers keep nothing between calls
Discard ==
    /\ fn # "none"
    /\ fn' = "none"
    /\ args' = <<>>
    /\ res' = NoRes
    /\ prev' = NoCall
    /\ hops' = 0
    /\ UNCHANGED arith

Next ==
    \/ Do_ind_reactance
    \/ Do_cap_reactance
    \/ Do_resonance
    \/ Do_ohms_law
    \/ Do_power
    \/ Do_impedance
    \/ Do_divider
    \/ Discard

Spec == Init /\ [][Next]_vars

\* ------------------------------------------------------- shared notions
\* a and b are the same number (history apart)
NumEq(a, b) == [a EXCEPT !.x = FALSE] = [b EXCEPT !.x = FALSE]

\* some argument of the call is negative
AnyNeg(a) == \E i \in DOMAIN a : IsNeg(a[i])

\* the first negative argument, in signature order
FirstNeg(a) == CHOOSE i \in DOMAIN a : IsNeg(a[i]) /\ \A j \in 1..(i - 1) : ~IsNeg(a[j])

\* the message of the negative-value error for parameter i of solver f
NegMsg(f, i) ==
    IF f = "ind_reactance"
    THEN <<"Inductance cannot be negative", "Frequency cannot be negative",
           "Reactance cannot be negative">>[i]
    ELSE <<"Capacitance cannot be negative", "Frequency cannot be negative",
           "Reactance cannot be negative">>[i]

NegMsgs == {NegMsg(f, i) : f \in {"ind_reactance", "cap_reactance"}, i \in 1..3}

\* the call raised the one-and-only-one-zero error
GateRaised ==
    /\ res.kind = "raise"
    /\ res.exc = "ValueError"
    /\ res.msg = GateMsg
    /\ res.br = "gate"

\* ------------------------------------------------------------------ C1
\* C1: in every solver, a call whose arguments do not hold exactly one 0
\* raises "One and only one argument must be 0" and returns nothing, also
\* when some argument is negative: the gate comes before any other check.
C1_GateFirst ==
    (fn # "none" /\ ZeroCount(args) # 1) => GateRaised

\* a reactance call with two zeros and a negative argument was refused by the gate
C1_Witness ==
    /\ fn = "cap_reactance"
    /\ ZeroCount(args) = 2
    /\ AnyNeg(args)
    /\ GateRaised

\* ------------------------------------------------------------------ C2
\* C2: in ind_reactance and cap_reactance, a call with exactly one 0 and a
\* negative argument raises the negative-value error naming the first
\* negative parameter in signature order, before any formula; a call with no
\* negative argument raises no negative-value error.
C2_NegativeOrder ==
    fn \in {"ind_reactance", "cap_reactance"} =>
        /\ (ZeroCount(args) = 1 /\ AnyNeg(args)) =>
               /\ res.kind = "raise"
               /\ res.exc = "ValueError"
               /\ res.msg = NegMsg(fn, FirstNeg(args))
               /\ res.br = "neg"
        /\ ~AnyNeg(args) => ~(res.kind = "raise" /\ res.msg \in NegMsgs)

\* two negative arguments: the error names the first, the inductance
C2_Witness ==
    /\ fn = "ind_reactance"
    /\ ZeroCount(args) = 1
    /\ IsNeg(args[1]) /\ IsNeg(args[2])
    /\ res.kind = "raise"
    /\ res.msg = "Inductance cannot be negative"

\* ------------------------------------------------------------------ C3
\* C3: impedance with resistance = 0 and both reactances non-zero returns
\* the number sqrt(R^2 + (X_L - X_C)^2), that is |X_L - X_C|.
C3_ImpedanceMagnitude ==
    (fn = "impedance" /\ IsZero(args[1]) /\ ~IsZero(args[2]) /\ ~IsZero(args[3])) =>
        /\ res.kind = "bare"
        /\ NumEq(res.val, Sqrt(Pow2(Sub(args[2], args[3]))))

\* ------------------------------------------------------------------ C4
\* divider solving res_low with v_in = v_out
C4_CaseA ==
    /\ fn = "divider" /\ ZeroCount(args) = 1
    /\ IsZero(args[2]) /\ NumEq(args[3], args[4])
\* divider solving v_out with res_high = -res_low
C4_CaseB ==
    /\ fn = "divider" /\ ZeroCount(args) = 1
    /\ IsZero(args[4]) /\ NumEq(args[1], Neg(args[2]))
\* resonance solving frequency with capacitance*inductance < 0
C4_CaseC ==
    /\ fn = "resonance" /\ ZeroCount(args) = 1
    /\ IsZero(args[3]) /\ Sign(args[1]) * Sign(args[2]) < 0

Raised(exc, msg) == res.kind = "raise" /\ res.exc = exc /\ res.msg = msg

Keyed == {"ind_reactance", "cap_reactance", "ohms_law"}

\* the call before this one solved for its one zero, the known arguments
\* being strictly positive, and this call fed the result back
FedBack ==
    /\ hops >= 1
    /\ prev.fn = fn
    /\ ZeroCount(prev.args) = 1
    /\ \A i \in DOMAIN prev.args : ~IsNeg(prev.args[i])

\* the parameter this call zeroed, whose original value it is to reproduce
NewZero == CHOOSE i \in DOMAIN args : IsZero(args[i]) /\ ~IsZero(prev.args[i])

\* nothing in the two calls left the float range
NoRangeEvent ==
    /\ ~res.rng
    /\ \A i \in DOMAIN args : ~args[i].x
    /\ \A i \in DOMAIN prev.args : ~prev.args[i].x

\* this call returned {name of the newly zeroed parameter: its original value}
RoundTrip ==
    /\ res.kind = "dict"
    /\ res.key = Params(fn)[NewZero]
    /\ res.val = prev.args[NewZero]

\* C5 as stated: for ind_reactance, cap_reactance and ohms_law, solving for
\* the zero and solving again with the result substituted and a known
\* parameter zeroed always returns that parameter's name and original value.
C5_Original ==
    (fn \in Keyed /\ FedBack) => RoundTrip

\* C5 amended: the round trip reproduces the original in exact arithmetic,
\* and in float arithmetic whenever no intermediate result of the two calls
\* overflows or underflows.
C5_Amended ==
    (fn \in Keyed /\ FedBack /\ (arith = "exact" \/ NoRangeEvent)) => RoundTrip

\* a capacitive reactance was solved for, fed back, and the frequency recovered
C5_Witness ==
    /\ fn = "cap_reactance" /\ FedBack
    /\ arith = "float" /\ NoRangeEvent
    /\ IsZero(prev.args[3])
    /\ NewZero = 2
    /\ RoundTrip

\* ------------------------------------------------------------------ C6
\* the power the claim names for a call power(v, i, r) with one zero,
\* multiplications and divisions spelled out
PowerOf(a) ==
    IF IsZero(a[1]) THEN Mul(Mul(a[2], a[2]), a[3])
    ELSE IF IsZero(a[2]) THEN Div(Mul(a[1], a[1]), a[3])
    ELSE Mul(a[1], a[2])

\* C6 as stated: power with exactly one zero always returns {"power": p}
\* with p = I^2*R, V^2/R or V*I according to which argument is zero.
C6_Original ==
    (fn = "power" /\ ZeroCount(args) = 1) =>
        /\ res.kind = "dict"
        /\ res.key = "power"
        /\ NumEq(res.val, PowerOf(args))

\* the square pow(., 2) that the call forms is past the float range
SquareOverflows ==
    /\ arith = "float"
    /\ ~IsZero(args[3])
    /\ LET b == IF IsZero(args[1]) THEN args[2] ELSE args[1]
       IN  b.k = "fin" /\ TooBig(Fin(b.n * b.n, b.d * b.d, 2 * b.p, FALSE))

\* C6 amended: as stated, except that a call whose float square pow(I, 2)
\* or pow(V, 2) is out of range raises OverflowError.
C6_Amended ==
    (fn = "power" /\ ZeroCount(args) = 1) =>
        IF SquareOverflows
        THEN Raised("OverflowError", "Numerical result out of range")
        ELSE /\ res.kind = "dict"
             /\ res.key = "power"
             /\ NumEq(res.val, PowerOf(args))

\* power solved with the current zero: V^2/R under the key "power"
C6_Witness ==
    /\ fn = "power" /\ ZeroCount(args) = 1
    /\ IsZero(args[2]) /\ args[1] = Q(2, 1) /\ args[3] = Q(1, Big)
    /\ res.kind = "dict" /\ res.key = "power" /\ res.val = Q(4 * Big, 1)

\* ------------------------------------------------------------------ C7
\* C7 as stated: impedance with ind_reactance = 0 or cap_reactance = 0
\* returns the bare number 0 whatever the other arguments are.
C7_Original ==
    (fn = "impedance" /\ (IsZero(args[2]) \/ IsZero(args[3]))) =>
        res.kind = "bare" /\ res.val = Zero

\* C7 amended: impedance whose only zero argument is ind_reactance or
\* cap_reactance returns the bare number 0 whatever the two non-zero
\* arguments are.
C7_Amended ==
    (fn = "impedance" /\ ZeroCount(args) = 1 /\ (IsZero(args[2]) \/ IsZero(args[3]))) =>
        res.kind = "bare" /\ res.val = Zero

\* cap_reactance is the only zero, the others are not: 0 is returned
C7_Witness ==
    /\ fn = "impedance"
    /\ args = <<Q(2, 1), Q(-1, 1), Q(0, 1)>>
    /\ res.kind = "bare" /\ res.val = Zero

\* ------------------------------------------------------------------ C8
\* divider with the dispatch tests taken in signature order instead
divider_reordered(res_high, res_low, v_in, v_out) ==
    IF ZeroCount(<<res_high, res_low, v_in, v_out>>) # 1
    THEN Raise("ValueError", GateMsg, "gate", FALSE)
    ELSE IF IsZero(res_high)
    THEN RetBare(Sub(Div(Mul(res_low, v_in), v_out), res_low), "res_high")
    ELSE IF IsZero(res_low)
    THEN RetBare(Div(Mul(res_high, v_out), Sub(v_in, v_out)), "res_low")
    ELSE IF IsZero(v_in)
    THEN RetBare(Div(Mul(v_out, Add(res_low, res_high)), res_low), "v_in")
    ELSE IF IsZero(v_out)
    THEN RetBare(Mul(Div(res_low, Add(res_high, res_low)), v_in), "v_out")
    ELSE Raise("ValueError", ElseMsg, "else", FALSE)

\* C8: with res_high, res_low, v_in > 0 and v_out = divider(res_high,
\* res_low, v_in, 0), the calls divider(0, res_low, v_in, v_out),
\* divider(res_high, 0, v_in, v_out) and divider(res_high, res_low, 0, v_out)
\* return res_high, res_low and v_in, exactly in exact arithmetic; and the
\* result of divider is the same when the dispatch tests its arguments in
\* another order.
C8_DividerConsistent ==
    fn = "divider" =>
        /\ (FedBack /\ IsZero(prev.args[4]) /\ arith = "exact") =>
               /\ res.kind = "bare"
               /\ res.val = prev.args[NewZero]
        /\ res = divider_reordered(args[1], args[2], args[3], args[4])

\* v_out was solved for, fed back, and res_low recovered from it
C8_Witness ==
    /\ fn = "divider" /\ FedBack /\ arith = "exact"
    /\ prev.args = <<Q(2, 1), Q(Big, 1), Q(1, Big), Q(0, 1)>>
    /\ NewZero = 2
    /\ res.kind = "bare"
    /\ res.val = Q(Big, 1)

\* ------------------------------------------------------------------ C9
\* the call got past the exactly-one-zero gate and the negative checks
PassedChecks ==
    /\ fn \in {"ind_reactance", "cap_reactance"}
    /\ res.br \notin {"gate", "neg"}

\* C9 as stated: every reactance call that passes the gate and the negative
\* checks divides by a non-zero denominator and returns a finite one-entry
\* mapping.
C9_Original ==
    PassedChecks => res.kind = "dict" /\ res.val.k = "fin"

\* C9 amended: such a call has exactly one zero and two strictly positive
\* other arguments; in exact arithmetic, and in float arithmetic when no
\* intermediate result overflows or underflows, it returns a finite one-entry
\* mapping keyed by the zero parameter; otherwise it returns a one-entry
\* mapping (possibly infinite) or raises ZeroDivisionError.
C9_Amended ==
    PassedChecks =>
        /\ ZeroCount(args) = 1
        /\ \A i \in DOMAIN args : i # ZeroSlot(args) => (args[i].k = "fin" /\ args[i].n > 0)
        /\ IF arith = "exact" \/ ~res.rng
           THEN /\ res.kind = "dict"
                /\ res.key = Params(fn)[ZeroSlot(args)]
                /\ res.val.k = "fin"
           ELSE \/ res.kind = "dict" /\ res.key = Params(fn)[ZeroSlot(args)]
                \/ Raised("ZeroDivisionError", "division by zero")

\* a capacitance was solved for from positive frequency and reactance
C9_Witness ==
    /\ fn = "cap_reactance" /\ PassedChecks
    /\ arith = "float"
    /\ args = <<Q(0, 1), Q(2, 1), Q(1, Big)>>
    /\ res.kind = "dict" /\ res.key = "capacitance"
    /\ res.val = Fin(Big, 2, -1, FALSE)

\* ----------------------------------------------------------------- C10
\* the branch of the dispatch that belongs to the one zero argument
ZeroBranch == Params(fn)[ZeroSlot(args)]

\* C10: in every solver no call ends in the final "Exactly one argument
\* must be 0" error, and a call with exactly one zero that reaches the
\* dispatch takes the branch of that zero argument.
C10_DispatchTotal ==
    fn # "none" =>
        /\ res.br # "else"
        /\ ~(res.kind = "raise" /\ res.msg = ElseMsg)
        /\ ZeroCount(args) = 1 =>
               IF fn \in {"ind_reactance", "cap_reactance"} /\ AnyNeg(args)
               THEN res.br = "neg"
               ELSE res.br = ZeroBranch

\* ohms_law took its last branch, for the zero resistance
C10_Witness ==
    /\ fn = "ohms_law"
    /\ args = <<Q(2, 1), Q(1, Big), Q(0, 1)>>
    /\ res.br = "resistance"
    /\ res.kind = "dict" /\ res.key = "resistance" /\ res.val = Q(2 * Big, 1)

====
